---------------------------- MODULE Spec2Model ----------------------------
(***************************************************************************)
(* A model of WakandaSolar_CreditAnalysis_dlight.py: the batch pipeline    *)
(* main() that turns a contracts table and a payments table into the KPI   *)
(* tables of the workbook, then publishes the workbook.                    *)
(*                                                                         *)
(* Representation.                                                         *)
(*   - A date is the number of days since 2024-01-01 (a day ordinal); a    *)
(*     month (a pandas Period 'M', or a month-start Timestamp) is the      *)
(*     number of months since 2024-01.  The calendar is the Gregorian one  *)
(*     (leap years included) over CalendarMonths months.                   *)
(*   - Money is an integer number of cents; a daily rate is an integer     *)
(*     number of mills (1/1000 USD), so that round(x, 2) is a real         *)
(*     rounding (half to even, as numpy and Python round).                 *)
(*   - A percentage is an integer number of hundredths of a percent, in a  *)
(*     record that also says whether the float is a number, NaN or inf.    *)
(*   - A DataFrame whose row order or row multiplicity matters is a        *)
(*     sequence of records; the result of a groupby (unique keys) is a set *)
(*     of records.                                                         *)
(***************************************************************************)
EXTENDS Integers, Sequences, FiniteSets, TLC

VARIABLES
    pc,                 \* the position of main()
    remote,             \* what the two CSV urls hold
    contracts_df,       \* contracts_df
    payments_df,        \* payments_df
    trend_df,           \* trend_df (reassigned by several sections)
    trend_summary,      \* Collection_Rate_Trend / Repayment_Rate_Trend
    par_pivot,          \* PAR_Trend
    vintage_analysis,   \* Vintage_Analysis
    product_summary,    \* Product_Collection_Rate
    FPD_rate_trend,     \* FPD_Rate_Trend
    cash_flow,          \* Cash_Flow
    monthly_projection, \* monthly_projection (with its discount factors)
    workbook,           \* the sheets of dlight_cleaned_data.xlsx, once written
    published,          \* the publication steps that succeeded
    printed             \* what main() printed

vars == <<pc, remote, contracts_df, payments_df, trend_df, trend_summary,
          par_pivot, vintage_analysis, product_summary, FPD_rate_trend,
          cash_flow, monthly_projection, workbook, published, printed>>

tables == <<contracts_df, payments_df, trend_df, trend_summary, par_pivot,
            vintage_analysis, product_summary, FPD_rate_trend, cash_flow,
            monthly_projection>>

-----------------------------------------------------------------------------
(* Bounds of the model. *)

\* The calendar covers the months 2024-01 .. 2024-01 + CalendarMonths - 1.
CalendarMonths == 48

-----------------------------------------------------------------------------
(* Null markers. *)

\* pd.NaT: a missing or unparsable date (to_datetime(errors='coerce')).
NaT == -1

\* NaN in a numeric column of the CSV (a missing contract_tenor_days).
NaN == -2

\* NaN in a string column (a payment whose contract is unknown has no company).
NoCompany == "NaN"

-----------------------------------------------------------------------------
(* The calendar. *)

IsLeap(y) == (y % 4 = 0) /\ ((y % 100 # 0) \/ (y % 400 = 0))

YearOf(mi) == 2024 + (mi \div 12)

MonthNumberOf(mi) == (mi % 12) + 1

\* Period.days_in_month / Timestamp.days_in_month
days_in_month(mi) ==
    LET m == MonthNumberOf(mi)
    IN  IF m = 2 THEN (IF IsLeap(YearOf(mi)) THEN 29 ELSE 28)
        ELSE IF m \in {4, 6, 9, 11} THEN 30 ELSE 31

RECURSIVE MonthStartRec(_)
MonthStartRec(mi) ==
    IF mi = 0 THEN 0 ELSE MonthStartRec(mi - 1) + days_in_month(mi - 1)

\* The day ordinal of the first day of each month of the calendar.
MonthStartTab == [mi \in 0..CalendarMonths |-> MonthStartRec(mi)]

\* Period('M').to_timestamp(): the first day of the month.
to_timestamp(mi) == IF mi = NaT THEN NaT ELSE MonthStartTab[mi]

\* Series.dt.to_period('M'): the month a date falls in (NaT stays NaT).
to_period(d) ==
    IF d = NaT THEN NaT
    ELSE CHOOSE mi \in 0..(CalendarMonths - 1) :
            MonthStartTab[mi] <= d /\ d < MonthStartTab[mi + 1]

\* Timestamp.day
DayOf(d) == d - MonthStartTab[to_period(d)] + 1

\* The date y-m-d as a day ordinal.
Date(y, m, d) == MonthStartTab[(y - 2024) * 12 + (m - 1)] + (d - 1)

\* The month y-m as a month index.
Month(y, m) == (y - 2024) * 12 + (m - 1)

-----------------------------------------------------------------------------
(* Arithmetic. *)

\* floor(n / d) rounded to the nearest integer, ties to the even one: what
\* round(x, 2) and Series.round(2) do to n/d hundredths (d > 0).
RoundHalfEven(n, d) ==
    LET q == n \div d
        r == n % d
    IN  IF 2 * r < d THEN q
        ELSE IF 2 * r > d THEN q + 1
        ELSE IF q % 2 = 0 THEN q ELSE q + 1

RECURSIVE SumSeq(_)
SumSeq(s) == IF s = <<>> THEN 0 ELSE Head(s) + SumSeq(Tail(s))

RECURSIVE SumSet(_, _)
\* The sum of the field f of the records of the set S.
SumSet(S, f) ==
    IF S = {} THEN 0
    ELSE LET x == CHOOSE x \in S : TRUE IN x[f] + SumSet(S \ {x}, f)

\* The sum of the field f over the rows of a sequence.
SumCol(s, f) == SumSeq([i \in 1..Len(s) |-> s[i][f]])

Range(s) == {s[i] : i \in 1..Len(s)}

RECURSIVE Concat(_)
\* The concatenation of a sequence of sequences.
Concat(ss) == IF ss = <<>> THEN <<>> ELSE Head(ss) \o Concat(Tail(ss))

\* A float that may not be a number.
Num(v) == [kind |-> "num", v |-> v]
NotANumber == [kind |-> "nan", v |-> 0]
Infinity == [kind |-> "inf", v |-> 0]

\* (num / den) * 100, rounded to 2 decimals, as float division does it:
\* 0/0 is NaN and x/0 is +-inf, neither raises.  In hundredths of a percent.
Ratio(num, den) ==
    IF den = 0 THEN (IF num = 0 THEN NotANumber ELSE Infinity)
    ELSE IF den > 0 THEN Num(RoundHalfEven(num * 10000, den))
    ELSE Num(RoundHalfEven((0 - num) * 10000, 0 - den))

-----------------------------------------------------------------------------
(* 2.-5. Data cleaning, joining (lines 37-68). *)

RECURSIVE DropDupRec(_, _)
DropDupRec(s, seen) ==
    IF s = <<>> THEN <<>>
    ELSE IF Head(s).contract_id \in seen THEN DropDupRec(Tail(s), seen)
    ELSE <<Head(s)>> \o DropDupRec(Tail(s), seen \cup {Head(s).contract_id})

\* A faulty drop_duplicates: every row is kept.
KeepDuplicates(s) == s

\* contracts_df.drop_duplicates(subset=['contract_id']): the first row of each
\* contract_id is kept, in order.
drop_duplicates(s) == DropDupRec(s, {})

\* Series.fillna(0)
fillna0(x) == IF x = NaN THEN 0 ELSE x

\* registration_date + MonthBegin(1), then to_period('M').to_timestamp().
first_full_month(reg) ==
    IF reg = NaT THEN NaT ELSE to_timestamp(to_period(reg) + 1)

\* payments_df.groupby('contract_id')['total_paid'].sum(), left-merged.
PaidOf(payments, id) ==
    SumSeq([i \in 1..Len(payments) |->
              IF payments[i].contract_id = id
              THEN fillna0(payments[i].total_paid) ELSE 0])

\* The sort key of a date with na_position='last'.
NaLast(d) == IF d = NaT THEN MonthStartTab[CalendarMonths] + 1 ELSE d

RECURSIVE InsertBy(_, _, _, _)
\* x inserted after the rows of the sorted s that are not greater than it.
InsertBy(x, s, f1, f2) ==
    IF s = <<>> THEN <<x>>
    ELSE LET h == Head(s)
         IN  IF \/ x[f1] < h[f1]
                \/ x[f1] = h[f1] /\ NaLast(x[f2]) < NaLast(h[f2])
             THEN <<x>> \o s
             ELSE <<h>> \o InsertBy(x, Tail(s), f1, f2)

RECURSIVE sort_values(_, _, _)
\* DataFrame.sort_values([f1, f2]) of integer columns.
sort_values(s, f1, f2) ==
    IF s = <<>> THEN <<>>
    ELSE InsertBy(s[Len(s)], sort_values(SubSeq(s, 1, Len(s) - 1), f1, f2), f1, f2)

\* The company of contract id in the contracts table (a left merge on
\* contract_id: NaN when no contract has the id).
CompanyOf(contracts, id) ==
    IF \E i \in 1..Len(contracts) : contracts[i].contract_id = id
    THEN contracts[CHOOSE i \in 1..Len(contracts) : contracts[i].contract_id = id].company
    ELSE NoCompany

\* contracts_df after sections 2 and 3.
CleanContracts(raw) ==
    LET c == drop_duplicates(raw.contracts)
    IN  [i \in 1..Len(c) |->
            [contract_id |-> c[i].contract_id,
             company |-> c[i].company,
             contract_type |-> c[i].contract_type,
             registration_date |-> c[i].registration_date,
             contract_tenor_days |-> c[i].contract_tenor_days,
             daily_payment_amount_usd |-> c[i].daily_payment_amount_usd,
             down_payment_usd |-> fillna0(c[i].down_payment_usd),
             contract_value_usd |-> c[i].contract_value_usd,
             baseunit_productname |-> c[i].baseunit_productname,
             product_family |-> c[i].product_family,
             first_full_month |-> first_full_month(c[i].registration_date),
             total_paid |-> PaidOf(raw.payments, c[i].contract_id),
             cumulative_paid |-> PaidOf(raw.payments, c[i].contract_id)
                                   + fillna0(c[i].down_payment_usd)]]

\* payments_df after sections 2, 4 and 5.
CleanPayments(raw, contracts) ==
    LET p == sort_values([i \in 1..Len(raw.payments) |->
                            [contract_id |-> raw.payments[i].contract_id,
                             pay_month |-> raw.payments[i].pay_month,
                             total_paid |-> fillna0(raw.payments[i].total_paid)]],
                         "contract_id", "pay_month")
    IN  [i \in 1..Len(p) |->
            [contract_id |-> p[i].contract_id,
             pay_month |-> p[i].pay_month,
             total_paid |-> p[i].total_paid,
             company |-> CompanyOf(contracts, p[i].contract_id)]]

-----------------------------------------------------------------------------
(* 6.1 The expected-versus-actual schedule (lines 73-95). *)

\* registration_date.dt.to_period('M')
start_month(c) == to_period(c.registration_date)

\* A faulty end_month: the tenor counted in whole 30-day months from the
\* registration month.
EndMonthByMonths(c) ==
    IF c.registration_date = NaT \/ c.contract_tenor_days = NaN THEN NaT
    ELSE to_period(c.registration_date) + (c.contract_tenor_days \div 30)

\* (registration_date + to_timedelta(contract_tenor_days, 'D')).dt.to_period('M')
end_month(c) ==
    IF c.registration_date = NaT \/ c.contract_tenor_days = NaN THEN NaT
    ELSE to_period(c.registration_date + c.contract_tenor_days)

\* round(daily_payment_amount_usd * m.days_in_month, 2), in cents.
expected_payment(c, m) ==
    RoundHalfEven(c.daily_payment_amount_usd * days_in_month(m), 10)

\* pd.period_range(a, b, freq='M'): empty when b < a.
period_range(a, b) == [k \in 1..(b - a + 1) |-> a + k - 1]

\* The rows one contract appends to expected_rows.
ExpectedRowsOf(c) ==
    IF start_month(c) = NaT \/ end_month(c) = NaT THEN <<>>
    ELSE LET months == period_range(start_month(c), end_month(c))
         IN  [k \in 1..Len(months) |->
                [contract_id |-> c.contract_id,
                 company |-> c.company,
                 month |-> months[k],
                 expected_payment |-> expected_payment(c, months[k])]]

\* expected_rows, in the order the loop appends them.
expected_rows(contracts) ==
    Concat([i \in 1..Len(contracts) |-> ExpectedRowsOf(contracts[i])])

\* actual_df: payments summed by (contract_id, company, month); groupby drops
\* the rows with a null key (no company, or pay_month NaT).
ActualPaid(payments, id, co, m) ==
    SumSeq([i \in 1..Len(payments) |->
              IF /\ payments[i].contract_id = id
                 /\ payments[i].company = co
                 /\ payments[i].company # NoCompany
                 /\ payments[i].pay_month # NaT
                 /\ to_period(payments[i].pay_month) = m
              THEN payments[i].total_paid ELSE 0])

\* trend_df of line 94-95: expected rows left-joined with actual_df.
Schedule(contracts, payments) ==
    LET e == expected_rows(contracts)
    IN  [k \in 1..Len(e) |->
            [contract_id |-> e[k].contract_id,
             company |-> e[k].company,
             month |-> e[k].month,
             expected_payment |-> e[k].expected_payment,
             total_paid |-> ActualPaid(payments, e[k].contract_id,
                                       e[k].company, e[k].month)]]

-----------------------------------------------------------------------------
(* 6.2-6.3 Collection rate and repayment rate (lines 97-117). *)

\* The row of contract id (contract_id is unique after drop_duplicates).
ContractOf(contracts, id) ==
    contracts[CHOOSE i \in 1..Len(contracts) : contracts[i].contract_id = id]

AllContracts(contracts) ==
    {contracts[i].contract_id : i \in 1..Len(contracts)}

\* contracts_df[contracts_df['contract_type'] == 'FINANCED']['contract_id'].unique()
financed_contracts(contracts) ==
    {contracts[i].contract_id :
        i \in {j \in 1..Len(contracts) : contracts[j].contract_type = "FINANCED"}}

\* trend_df[trend_df['contract_id'].isin(financed_contracts)]
FilterFinanced(trend, contracts) ==
    SelectSeq(trend, LAMBDA r : r.contract_id \in financed_contracts(contracts))

\* The sum of column f over the rows of trend of one company and month.
SumByCompanyMonth(trend, f, co, m) ==
    SumSeq([i \in 1..Len(trend) |->
              IF trend[i].company = co /\ trend[i].month = m
              THEN trend[i][f] ELSE 0])

\* pd.Timestamp('2025-12-31'), the reporting horizon of line 110.
ReportingHorizon == Date(2025, 12, 31)

\* trend_summary before the cumulative columns (lines 101-110).
CollectionRateTrend(trend) ==
    LET keys == {<<trend[i].company, trend[i].month>> : i \in 1..Len(trend)}
        rows == {[company |-> k[1],
                  month |-> k[2],
                  expected_payment |-> SumByCompanyMonth(trend, "expected_payment", k[1], k[2]),
                  total_paid |-> SumByCompanyMonth(trend, "total_paid", k[1], k[2]),
                  collection_rate |->
                      Ratio(SumByCompanyMonth(trend, "total_paid", k[1], k[2]),
                            SumByCompanyMonth(trend, "expected_payment", k[1], k[2]))] :
                 k \in {x \in keys : x[1] # NoCompany}}
    IN  {r \in rows : to_timestamp(r.month) <= ReportingHorizon}

\* groupby('company')[f].cumsum() of the rows sorted by (company, month).
CumSum(rows, f, r) ==
    SumSet({x \in rows : x.company = r.company /\ x.month <= r.month}, f)

\* trend_summary with cum_total_paid, cum_expected_payment, repayment_rate.
TrendSummary(trend) ==
    LET rows == CollectionRateTrend(trend)
    IN  {[company |-> r.company,
          month |-> r.month,
          expected_payment |-> r.expected_payment,
          total_paid |-> r.total_paid,
          collection_rate |-> r.collection_rate,
          cum_total_paid |-> CumSum(rows, "total_paid", r),
          cum_expected_payment |-> CumSum(rows, "expected_payment", r),
          repayment_rate |-> Ratio(CumSum(rows, "total_paid", r),
                                   CumSum(rows, "expected_payment", r))] :
         r \in rows}

-----------------------------------------------------------------------------
(* 6.4-6.5 Portfolio at risk (lines 119-167). *)

\* trend_df['total_paid'] < trend_df['expected_payment']
missed_payment(r) == r.total_paid < r.expected_payment

RECURSIVE RowLoop(_, _, _, _)
\* The inner loop of lines 125-130 over the row labels idx of one contract:
\* missed is the loop-carried counter, acc the consec_missed column.
RowLoop(s, idx, missed, acc) ==
    IF idx = <<>> THEN acc
    ELSE LET m == IF missed_payment(s[Head(idx)]) THEN missed + 1 ELSE 0
         IN  RowLoop(s, Tail(idx), m, [acc EXCEPT ![Head(idx)] = m])

\* trend_df[trend_df['contract_id'] == contract].index, in row order.
IndexOf(s, id) ==
    LET I == {i \in 1..Len(s) : s[i].contract_id = id}
    IN  [k \in 1..Cardinality(I) |->
            CHOOSE i \in I : Cardinality({j \in I : j < i}) = k - 1]

RECURSIVE ContractLoop(_, _, _)
\* The outer loop of lines 123-130 over trend_df['contract_id'].unique().
ContractLoop(s, ids, acc) ==
    IF ids = {} THEN acc
    ELSE LET id == CHOOSE x \in ids : \A y \in ids : x <= y
         IN  ContractLoop(s, ids \ {id}, RowLoop(s, IndexOf(s, id), 0, acc))

\* The consec_missed column of the sorted trend_df.
consec_missed(s) ==
    ContractLoop(s, {s[i].contract_id : i \in 1..Len(s)}, [i \in 1..Len(s) |-> 0])

\* A faulty par_bucket: every threshold one month late.
ParBucketOffByOne(months) ==
    IF months >= 5 THEN "PAR120"
    ELSE IF months = 4 THEN "PAR90"
    ELSE IF months = 3 THEN "PAR60"
    ELSE IF months = 2 THEN "PAR30"
    ELSE "Current"

par_bucket(months) ==
    IF months >= 4 THEN "PAR120"
    ELSE IF months = 3 THEN "PAR90"
    ELSE IF months = 2 THEN "PAR60"
    ELSE IF months = 1 THEN "PAR30"
    ELSE "Current"

\* trend_df after lines 120-144: sorted, with the three PAR columns.
WithParColumns(trend) ==
    LET s == sort_values(trend, "contract_id", "month")
        cm == consec_missed(s)
    IN  [i \in 1..Len(s) |->
            [contract_id |-> s[i].contract_id,
             company |-> s[i].company,
             month |-> s[i].month,
             expected_payment |-> s[i].expected_payment,
             total_paid |-> s[i].total_paid,
             missed_payment |-> missed_payment(s[i]),
             consec_missed |-> cm[i],
             PAR_bucket |-> par_bucket(cm[i])]]

\* par_summary pivoted: the expected_payment of one (company, month, bucket),
\* 0 when the group is empty (fill_value=0, or the column added as 0.0).
ParAmount(trend, co, m, b) ==
    SumSeq([i \in 1..Len(trend) |->
              IF trend[i].company = co /\ trend[i].month = m /\ trend[i].PAR_bucket = b
              THEN trend[i].expected_payment ELSE 0])

\* payments_df['pay_month'].max(): NaT when no payment has a date.
max_month(payments) ==
    LET D == {payments[i].pay_month : i \in 1..Len(payments)} \ {NaT}
    IN  IF D = {} THEN NaT ELSE CHOOSE d \in D : \A e \in D : e <= d

\* A faulty Pct: the percentage cut to 2 decimals instead of rounded.
PctTruncated(amount, total) ==
    IF total > 0 THEN Num((amount * 10000) \div total) ELSE Num(0)

\* np.where(Total_PAR > 0, (bucket / Total_PAR) * 100, 0).round(2)
Pct(amount, total) ==
    IF total > 0 THEN Ratio(amount, total) ELSE Num(0)

\* par_pivot with Total_PAR and the five percentages (lines 145-167).
ParPivot(trend, payments) ==
    LET keys == {<<trend[i].company, trend[i].month>> : i \in 1..Len(trend)}
        kept == {k \in keys : /\ k[1] # NoCompany
                              /\ max_month(payments) # NaT
                              /\ to_timestamp(k[2]) <= max_month(payments)}
        total(k) == ParAmount(trend, k[1], k[2], "PAR30")
                    + ParAmount(trend, k[1], k[2], "PAR60")
                    + ParAmount(trend, k[1], k[2], "PAR90")
                    + ParAmount(trend, k[1], k[2], "PAR120")
                    + ParAmount(trend, k[1], k[2], "Current")
    IN  {[company |-> k[1],
          month |-> k[2],
          PAR30 |-> ParAmount(trend, k[1], k[2], "PAR30"),
          PAR60 |-> ParAmount(trend, k[1], k[2], "PAR60"),
          PAR90 |-> ParAmount(trend, k[1], k[2], "PAR90"),
          PAR120 |-> ParAmount(trend, k[1], k[2], "PAR120"),
          Current |-> ParAmount(trend, k[1], k[2], "Current"),
          Total_PAR |-> total(k),
          PAR30_pct |-> Pct(ParAmount(trend, k[1], k[2], "PAR30"), total(k)),
          PAR60_pct |-> Pct(ParAmount(trend, k[1], k[2], "PAR60"), total(k)),
          PAR90_pct |-> Pct(ParAmount(trend, k[1], k[2], "PAR90"), total(k)),
          PAR120_pct |-> Pct(ParAmount(trend, k[1], k[2], "PAR120"), total(k)),
          Current_pct |-> Pct(ParAmount(trend, k[1], k[2], "Current"), total(k))] :
         k \in kept}

-----------------------------------------------------------------------------
(* 6.6 Vintage analysis (lines 177-203). *)

\* NaN in a product column.
NoProduct == "NaN"

\* trend_df after the merges of lines 179-192 and the columns of 194-195.
WithVintageColumns(trend, contracts) ==
    [i \in 1..Len(trend) |->
        LET c == ContractOf(contracts, trend[i].contract_id)
        IN  [contract_id |-> trend[i].contract_id,
             company |-> c.company,
             month |-> trend[i].month,
             expected_payment |-> trend[i].expected_payment,
             total_paid |-> trend[i].total_paid,
             missed_payment |-> trend[i].missed_payment,
             consec_missed |-> trend[i].consec_missed,
             PAR_bucket |-> trend[i].PAR_bucket,
             vintage |-> to_period(c.registration_date),
             registration_date |-> c.registration_date,
             contract_tenor_days |-> c.contract_tenor_days,
             months_on_book |->
                 (to_timestamp(trend[i].month) - c.registration_date) \div 30,
             tenor_months |-> c.contract_tenor_days \div 30]]

\* trend_df[(months_on_book >= 0) & (months_on_book <= tenor_months)], line 196.
FilterMonthsOnBook(trend) ==
    SelectSeq(trend, LAMBDA r : r.months_on_book >= 0 /\ r.months_on_book <= r.tenor_months)

\* vintage_analysis: groupby (company, vintage, months_on_book).
VintageAnalysis(trend) ==
    LET keys == {<<trend[i].company, trend[i].vintage, trend[i].months_on_book>> :
                   i \in 1..Len(trend)}
        sum(f, k) == SumSeq([i \in 1..Len(trend) |->
                        IF <<trend[i].company, trend[i].vintage, trend[i].months_on_book>> = k
                        THEN trend[i][f] ELSE 0])
    IN  {[company |-> k[1],
          vintage |-> k[2],
          months_on_book |-> k[3],
          expected_payment |-> sum("expected_payment", k),
          total_paid |-> sum("total_paid", k),
          collection_rate |-> Ratio(sum("total_paid", k), sum("expected_payment", k))] :
         k \in {x \in keys : x[1] # NoCompany}}

-----------------------------------------------------------------------------
(* 6.7 Product performance (lines 205-219). *)

\* trend_df merged with the two product columns of contracts_df.
WithProductColumns(trend, contracts) ==
    [i \in 1..Len(trend) |->
        LET c == ContractOf(contracts, trend[i].contract_id)
        IN  [contract_id |-> trend[i].contract_id,
             company |-> trend[i].company,
             month |-> trend[i].month,
             expected_payment |-> trend[i].expected_payment,
             total_paid |-> trend[i].total_paid,
             missed_payment |-> trend[i].missed_payment,
             consec_missed |-> trend[i].consec_missed,
             PAR_bucket |-> trend[i].PAR_bucket,
             vintage |-> trend[i].vintage,
             registration_date |-> trend[i].registration_date,
             contract_tenor_days |-> trend[i].contract_tenor_days,
             months_on_book |-> trend[i].months_on_book,
             tenor_months |-> trend[i].tenor_months,
             baseunit_productname |-> c.baseunit_productname,
             product_family |-> c.product_family]]

\* The (company, product_family, baseunit_productname, month) of a trend row.
ProductKey(r) == <<r.company, r.product_family, r.baseunit_productname, r.month>>

\* A groupby drops the keys that hold a null.
HasNull(k) == k[1] = NoCompany \/ k[2] = NoProduct \/ k[3] = NoProduct \/ k[4] = NaT

\* The sum of column f over the trend rows of one product key.
SumByProduct(trend, f, k) ==
    SumSeq([i \in 1..Len(trend) |->
              IF ProductKey(trend[i]) = k THEN trend[i][f] ELSE 0])

\* product_summary: groupby (company, month, baseunit_productname, product_family).
ProductSummary(trend) ==
    LET keys == {ProductKey(trend[i]) : i \in 1..Len(trend)}
    IN  {[company |-> k[1],
          month |-> k[4],
          baseunit_productname |-> k[3],
          product_family |-> k[2],
          expected_payment |-> SumByProduct(trend, "expected_payment", k),
          total_paid |-> SumByProduct(trend, "total_paid", k),
          collection_rate |-> Ratio(SumByProduct(trend, "total_paid", k),
                                    SumByProduct(trend, "expected_payment", k))] :
         k \in {x \in keys : ~HasNull(x)}}

-----------------------------------------------------------------------------
(* 6.8-6.9 First payment default (lines 221-277). *)

FPD_CUTOFF_DAY == 5

\* get_fpd_month: the month of reg + MonthBegin(1) when the day is at most the
\* cutoff, of reg + MonthBegin(2) otherwise (reg is then not a month start, so
\* the first of the two steps only rolls forward to the next month start).
get_fpd_month(reg) ==
    IF reg = NaT THEN NaT
    ELSE IF DayOf(reg) <= FPD_CUTOFF_DAY THEN to_period(reg) + 1
    ELSE to_period(reg) + 2

\* financed: the FINANCED rows of contracts_df, with fpd_month.
financed(contracts) ==
    SelectSeq(contracts, LAMBDA c : c.contract_type = "FINANCED")

\* fpd_paid, left-merged and filled with 0: the payments of the contract (same
\* contract_id and company) whose pay_month_only is its fpd_month.
fpd_total_paid(payments, c) ==
    SumSeq([i \in 1..Len(payments) |->
              IF /\ payments[i].contract_id = c.contract_id
                 /\ payments[i].company = c.company
                 /\ payments[i].pay_month # NaT
                 /\ get_fpd_month(c.registration_date) # NaT
                 /\ to_period(payments[i].pay_month) = get_fpd_month(c.registration_date)
              THEN payments[i].total_paid ELSE 0])

\* fpd_final: one row per trend_df row that an inner merge pairs with a
\* financed contract on (contract_id, company, month = fpd_month).
fpd_final(trend, contracts, payments) ==
    LET f == financed(contracts)
        pairs == Concat([i \in 1..Len(trend) |->
                    LET m == SelectSeq(f, LAMBDA c :
                                /\ c.contract_id = trend[i].contract_id
                                /\ c.company = trend[i].company
                                /\ get_fpd_month(c.registration_date) # NaT
                                /\ get_fpd_month(c.registration_date) = trend[i].month)
                    IN  [j \in 1..Len(m) |-> <<trend[i], m[j]>>]])
    IN  [k \in 1..Len(pairs) |->
            LET r == pairs[k][1]
                c == pairs[k][2]
            IN  [contract_id |-> r.contract_id,
                 expected_payment |-> r.expected_payment,
                 company |-> r.company,
                 registration_date |-> r.registration_date,
                 fpd_month |-> get_fpd_month(c.registration_date),
                 fpd_total_paid |-> fpd_total_paid(payments, c),
                 FPD_flag |-> fpd_total_paid(payments, c) < r.expected_payment,
                 FPD_zero_flag |-> fpd_total_paid(payments, c) = 0,
                 reg_month |-> to_period(r.registration_date)]]

\* FPD_rate_trend: groupby (company, reg_month, fpd_month) of fpd_final.
FpdRateTrend(ff) ==
    LET key(r) == <<r.company, r.reg_month, r.fpd_month>>
        keys == {key(ff[i]) : i \in 1..Len(ff)}
        count(k, P(_)) == Cardinality({i \in 1..Len(ff) : key(ff[i]) = k /\ P(ff[i])})
    IN  {[company |-> k[1],
          reg_month |-> k[2],
          fpd_month |-> k[3],
          contracts |-> count(k, LAMBDA r : TRUE),
          FPD_count |-> count(k, LAMBDA r : r.FPD_flag),
          FPD_rate |-> Ratio(count(k, LAMBDA r : r.FPD_flag), count(k, LAMBDA r : TRUE)),
          FPD_zero_count |-> count(k, LAMBDA r : r.FPD_zero_flag),
          FPD_zero_rate |-> Ratio(count(k, LAMBDA r : r.FPD_zero_flag),
                                  count(k, LAMBDA r : TRUE))] :
         k \in {x \in keys : x[1] # NoCompany}}

-----------------------------------------------------------------------------
(* 7. Cash flow (lines 279-317). *)

\* The grouping key of a contract in disbursements.
DisbursementKey(c) ==
    <<c.company, c.product_family, c.baseunit_productname,
      to_period(c.registration_date)>>

\* disbursements: contract_value_usd summed by key over all of contracts_df.
Disbursed(contracts, k) ==
    SumSeq([i \in 1..Len(contracts) |->
              IF DisbursementKey(contracts[i]) = k
              THEN contracts[i].contract_value_usd ELSE 0])

\* cash_flow: the outer merge of disbursements, expected_inflows and
\* actual_inflows, filled with 0, with the net and cumulative net cash flow.
CashFlow(trend, contracts) ==
    LET dkeys == {DisbursementKey(contracts[i]) : i \in 1..Len(contracts)}
        tkeys == {ProductKey(trend[i]) : i \in 1..Len(trend)}
        keys == {k \in dkeys \cup tkeys : ~HasNull(k)}
        net(k) == (IF k \in tkeys THEN SumByProduct(trend, "total_paid", k) ELSE 0)
                  - (IF k \in dkeys THEN Disbursed(contracts, k) ELSE 0)
        cum(k) == LET G == {x \in keys : /\ x[1] = k[1] /\ x[2] = k[2]
                                         /\ x[3] = k[3] /\ x[4] <= k[4]}
                  IN  SumSet({[key |-> x, net |-> net(x)] : x \in G}, "net")
    IN  {[company |-> k[1],
          product_family |-> k[2],
          baseunit_productname |-> k[3],
          month |-> k[4],
          disbursed_amount |-> IF k \in dkeys THEN Disbursed(contracts, k) ELSE 0,
          expected_payment |->
              IF k \in tkeys THEN SumByProduct(trend, "expected_payment", k) ELSE 0,
          total_paid |->
              IF k \in tkeys THEN SumByProduct(trend, "total_paid", k) ELSE 0,
          net_cash_flow |-> net(k),
          cumulative_net_cash_flow |-> cum(k)] :
         k \in keys}

-----------------------------------------------------------------------------
(* 8. Cash flow projection and valuation (lines 321-356). *)

\* pd.Timestamp('2025-08-01'), as a month.
projection_start == Month(2025, 8)

\* periods=12 of line 323.
ProjectionPeriods == 12

\* pd.date_range(projection_start, periods=12, freq='MS')
projection_months ==
    [i \in 1..ProjectionPeriods |-> projection_start + i - 1]

\* The condition of line 331 for one contract and one projection month.
ActiveIn(c, m) ==
    /\ c.registration_date # NaT
    /\ c.contract_tenor_days # NaN
    /\ c.registration_date <= to_timestamp(m)
    /\ to_timestamp(m) <= c.registration_date + c.contract_tenor_days

\* projection_rows, in the order the two loops append them; expected_payment
\* is not rounded here, so it is kept in mills.
projection_rows(contracts) ==
    Concat([i \in 1..Len(projection_months) |->
        LET m == projection_months[i]
            act == SelectSeq(contracts, LAMBDA c : ActiveIn(c, m))
        IN  [j \in 1..Len(act) |->
                [month |-> m,
                 contract_id |-> act[j].contract_id,
                 company |-> act[j].company,
                 expected_payment |-> act[j].daily_payment_amount_usd * days_in_month(m)]]])

\* The months of projection_df, ascending: the rows of
\* projection_df.groupby('month').sum().reset_index().
GroupedMonths(rows) ==
    LET M == {rows[i].month : i \in 1..Len(rows)}
    IN  [k \in 1..Cardinality(M) |->
            CHOOSE m \in M : Cardinality({x \in M : x < m}) = k - 1]

\* The i of line 347: range(1, len(monthly_projection) + 1) pairs the i-th ROW
\* of monthly_projection with the exponent -i.
DiscountExponent(months, i) == i

\* monthly_projection: one row per month that has a projection row, with the
\* exponent of its discount factor (1 + monthly_discount) ** -exponent.
MonthlyProjection(rows) ==
    LET months == GroupedMonths(rows)
    IN  [i \in 1..Len(months) |->
            [month |-> months[i],
             expected_payment |->
                 RoundHalfEven(SumSeq([j \in 1..Len(rows) |->
                                  IF rows[j].month = months[i]
                                  THEN rows[j].expected_payment ELSE 0]), 10),
             discount_exponent |-> DiscountExponent(months, i)]]

-----------------------------------------------------------------------------
(* The inputs: what the two urls may hold. *)

\* At most this many rows in the contracts table.
MaxContracts == 2

\* At most this many rows in the payments table of the general inputs.
MaxPayments == 1

\* A contracts row of company "A"; rates in mills, values in cents.
Contract(id, ty, reg, tenor, daily) ==
    [contract_id |-> id,
     company |-> "A",
     contract_type |-> ty,
     registration_date |-> reg,
     contract_tenor_days |-> tenor,
     daily_payment_amount_usd |-> daily,
     down_payment_usd |-> NaN,
     contract_value_usd |-> 12000,
     baseunit_productname |-> "lamp",
     product_family |-> "solar"]

\* A payments row.
Payment(id, date, amount) ==
    [contract_id |-> id, pay_month |-> date, total_paid |-> amount]

\* The sequences over S of length lo..hi.
SeqsOf(S, lo, hi) == UNION {[1..n -> S] : n \in lo..hi}

\* The two tables, and whether the contracts table has the product columns.
Input(cs, ps, pcols) ==
    [contracts |-> cs, payments |-> ps, product_columns |-> pcols]

\* General inputs.  The first contract is FINANCED with a registration date,
\* so that no table of the run is empty; the others may repeat its id, be of
\* another type, have no date, or a zero daily rate; the schema may lack the
\* product columns.
BaseInputs ==
    LET first == {Contract(id, "FINANCED", Date(2025, 7, 3), 90, daily) :
                    id \in 1..2, daily \in {0, 1000}}
        rows == {Contract(id, ty, reg, 90, daily) :
                    id \in 1..2, ty \in {"FINANCED", "CASH"},
                    reg \in {Date(2025, 7, 3), NaT}, daily \in {0, 1000}}
        pays == {Payment(1, Date(2025, 8, 10), 3100),
                 Payment(2, Date(2025, 7, 10), 1000)}
    IN  {Input(<<c>> \o cs, ps, pcols) :
            c \in first,
            cs \in SeqsOf(rows, 0, MaxContracts - 1),
            ps \in SeqsOf(pays, 0, MaxPayments),
            pcols \in BOOLEAN}

-----------------------------------------------------------------------------
(* The run of main(). *)

NoWorkbook == [written |-> FALSE, sheets |-> <<>>]

InitWith(inputs) ==
    /\ pc = "load"
    /\ remote \in inputs
    /\ contracts_df = <<>>
    /\ payments_df = <<>>
    /\ trend_df = <<>>
    /\ trend_summary = {}
    /\ par_pivot = {}
    /\ vintage_analysis = {}
    /\ product_summary = {}
    /\ FPD_rate_trend = {}
    /\ cash_flow = {}
    /\ monthly_projection = <<>>
    /\ workbook = NoWorkbook
    /\ published = {}
    /\ printed = {}

Init == InitWith(BaseInputs)

\* An exception nothing catches leaves main().
Raise == pc' = "crashed"

\* A faulty LoadFail: the error is printed and the run goes on with empty
\* tables.
LoadFailContinues ==
    /\ pc = "load"
    /\ printed' = printed \cup {"Error loading data"}
    /\ contracts_df' = <<>>
    /\ payments_df' = <<>>
    /\ pc' = "clean"
    /\ UNCHANGED <<remote, trend_df, trend_summary, par_pivot, vintage_analysis,
                   product_summary, FPD_rate_trend, cash_flow, monthly_projection,
                   workbook, published>>

\* Lines 29-31: both read_csv calls succeed.
LoadOk ==
    /\ pc = "load"
    /\ contracts_df' = remote.contracts
    /\ payments_df' = remote.payments
    /\ pc' = "clean"
    /\ UNCHANGED <<remote, trend_df, trend_summary, par_pivot, vintage_analysis,
                   product_summary, FPD_rate_trend, cash_flow, monthly_projection,
                   workbook, published, printed>>

\* Lines 32-34: a read_csv raises; the error is printed and main() returns.
LoadFail ==
    /\ pc = "load"
    /\ printed' = printed \cup {"Error loading data"}
    /\ pc' = "aborted"
    /\ UNCHANGED <<remote, tables, workbook, published>>

\* Lines 37-68.
Clean ==
    /\ pc = "clean"
    /\ contracts_df' = CleanContracts(remote)
    /\ payments_df' = CleanPayments(remote, CleanContracts(remote))
    /\ pc' = "schedule"
    /\ UNCHANGED <<remote, trend_df, trend_summary, par_pivot, vintage_analysis,
                   product_summary, FPD_rate_trend, cash_flow, monthly_projection,
                   workbook, published, printed>>

\* Lines 73-95.  With no expected row, expected_df has no columns and the
\* merge of line 94 raises KeyError.
BuildSchedule ==
    /\ pc = "schedule"
    /\ IF expected_rows(contracts_df) = <<>>
       THEN Raise /\ UNCHANGED trend_df
       ELSE /\ trend_df' = Schedule(contracts_df, payments_df)
            /\ pc' = "collection"
    /\ UNCHANGED <<remote, contracts_df, payments_df, trend_summary, par_pivot,
                   vintage_analysis, product_summary, FPD_rate_trend, cash_flow,
                   monthly_projection, workbook, published, printed>>

\* Lines 97-117.
CollectionRate ==
    /\ pc = "collection"
    /\ trend_df' = FilterFinanced(trend_df, contracts_df)
    /\ trend_summary' = TrendSummary(FilterFinanced(trend_df, contracts_df))
    /\ pc' = "par"
    /\ UNCHANGED <<remote, contracts_df, payments_df, par_pivot,
                   vintage_analysis, product_summary, FPD_rate_trend, cash_flow,
                   monthly_projection, workbook, published, printed>>

\* Lines 119-167.
PortfolioAtRisk ==
    /\ pc = "par"
    /\ trend_df' = WithParColumns(trend_df)
    /\ par_pivot' = ParPivot(WithParColumns(trend_df), payments_df)
    /\ pc' = "vintage"
    /\ UNCHANGED <<remote, contracts_df, payments_df, trend_summary,
                   vintage_analysis, product_summary, FPD_rate_trend, cash_flow,
                   monthly_projection, workbook, published, printed>>

\* Lines 177-203.
Vintage ==
    /\ pc = "vintage"
    /\ trend_df' = FilterMonthsOnBook(WithVintageColumns(trend_df, contracts_df))
    /\ vintage_analysis' =
           VintageAnalysis(FilterMonthsOnBook(WithVintageColumns(trend_df, contracts_df)))
    /\ pc' = "product"
    /\ UNCHANGED <<remote, contracts_df, payments_df, trend_summary, par_pivot,
                   product_summary, FPD_rate_trend, cash_flow,
                   monthly_projection, workbook, published, printed>>

\* Lines 205-219.
ProductPerformance ==
    /\ pc = "product"
    /\ IF remote.product_columns
       THEN /\ trend_df' = WithProductColumns(trend_df, contracts_df)
            /\ product_summary' = ProductSummary(WithProductColumns(trend_df, contracts_df))
       ELSE /\ product_summary' = {}
            /\ UNCHANGED trend_df
    /\ pc' = "fpd"
    /\ UNCHANGED <<remote, contracts_df, payments_df, trend_summary, par_pivot,
                   vintage_analysis, FPD_rate_trend, cash_flow,
                   monthly_projection, workbook, published, printed>>

\* Lines 221-277.
FirstPaymentDefault ==
    /\ pc = "fpd"
    /\ FPD_rate_trend' = FpdRateTrend(fpd_final(trend_df, contracts_df, payments_df))
    /\ pc' = "cashflow"
    /\ UNCHANGED <<remote, contracts_df, payments_df, trend_df, trend_summary,
                   par_pivot, vintage_analysis, product_summary, cash_flow,
                   monthly_projection, workbook, published, printed>>

\* Lines 279-317.  Without the product columns the groupby of line 282 raises
\* KeyError.
CashFlowAnalysis ==
    /\ pc = "cashflow"
    /\ IF remote.product_columns
       THEN /\ cash_flow' = CashFlow(trend_df, contracts_df)
            /\ pc' = "valuation"
       ELSE Raise /\ UNCHANGED cash_flow
    /\ UNCHANGED <<remote, contracts_df, payments_df, trend_df, trend_summary,
                   par_pivot, vintage_analysis, product_summary, FPD_rate_trend,
                   monthly_projection, workbook, published, printed>>

\* Lines 321-356.  With no projection row, projection_df has no columns and the
\* groupby('month') of line 341 raises KeyError.
Valuation ==
    /\ pc = "valuation"
    /\ IF projection_rows(contracts_df) = <<>>
       THEN Raise /\ UNCHANGED monthly_projection
       ELSE /\ monthly_projection' = MonthlyProjection(projection_rows(contracts_df))
            /\ pc' = "save"
    /\ UNCHANGED <<remote, contracts_df, payments_df, trend_df, trend_summary,
                   par_pivot, vintage_analysis, product_summary, FPD_rate_trend,
                   cash_flow, workbook, published, printed>>

\* Lines 360-373: the workbook is written.
Save ==
    /\ pc = "save"
    /\ workbook' = [written |-> TRUE,
                    sheets |-> <<contracts_df, payments_df, trend_summary, par_pivot,
                                 vintage_analysis, product_summary, FPD_rate_trend,
                                 cash_flow, monthly_projection>>]
    /\ pc' = "copy"
    /\ UNCHANGED <<remote, tables, published, printed>>

\* Lines 385-386: shutil.copy succeeds.
CopyOk ==
    /\ pc = "copy"
    /\ published' = published \cup {"copy"}
    /\ printed' = printed \cup {"Excel file copied to repo"}
    /\ pc' = "git"
    /\ UNCHANGED <<remote, tables, workbook>>

\* Line 385: shutil.copy raises, outside any try.
CopyFail ==
    /\ pc = "copy"
    /\ Raise
    /\ UNCHANGED <<remote, tables, workbook, published, printed>>

\* Lines 389-393: git add, commit and push all succeed.
GitOk ==
    /\ pc = "git"
    /\ published' = published \cup {"git"}
    /\ printed' = printed \cup {"Excel file committed and pushed"}
    /\ pc' = "email"
    /\ UNCHANGED <<remote, tables, workbook>>

\* Lines 394-395: one of the three git commands raises; the except prints it.
GitFail ==
    /\ pc = "git"
    /\ printed' = printed \cup {"Git automation failed"}
    /\ pc' = "email"
    /\ UNCHANGED <<remote, tables, workbook, published>>

\* Lines 403-427: the email is sent.
EmailOk ==
    /\ pc = "email"
    /\ published' = published \cup {"email"}
    /\ printed' = printed \cup {"Email sent"}
    /\ pc' = "finish"
    /\ UNCHANGED <<remote, tables, workbook>>

\* Lines 413-415: SMTP_SSL, login or send_message raises, outside any try.
EmailFail ==
    /\ pc = "email"
    /\ Raise
    /\ UNCHANGED <<remote, tables, workbook, published, printed>>

\* Lines 449-450.
Finish ==
    /\ pc = "finish"
    /\ printed' = printed \cup {"Data processing complete"}
    /\ pc' = "done"
    /\ UNCHANGED <<remote, tables, workbook, published>>

Next ==
    \/ LoadOk \/ LoadFail
    \/ Clean
    \/ BuildSchedule
    \/ CollectionRate
    \/ PortfolioAtRisk
    \/ Vintage
    \/ ProductPerformance
    \/ FirstPaymentDefault
    \/ CashFlowAnalysis
    \/ Valuation
    \/ Save
    \/ CopyOk \/ CopyFail
    \/ GitOk \/ GitFail
    \/ EmailOk \/ EmailFail
    \/ Finish

\* The run on the general inputs.
Spec == Init /\ [][Next]_vars

-----------------------------------------------------------------------------
(* Properties of the run on the general inputs (Spec). *)

\* The positions after the workbook has been written.
AfterSave == {"copy", "git", "email", "finish", "done"}

\* A ratio whose denominator is 0 must be the number 0.
ZeroWhenNoDenominator(ratio, den) == den = 0 => ratio = Num(0)

\* C3: every ratio KPI of every output table (collection rate, cumulative
\* repayment rate, the five PAR percentages, FPD rate and FPD-zero rate, the
\* vintage and product collection rates) is 0, not NaN or infinity, in every
\* row whose denominator is 0.
C3_RatiosZeroOnZeroDenominator ==
    workbook.written =>
    /\ \A r \in trend_summary :
          /\ ZeroWhenNoDenominator(r.collection_rate, r.expected_payment)
          /\ ZeroWhenNoDenominator(r.repayment_rate, r.cum_expected_payment)
    /\ \A r \in par_pivot :
          /\ ZeroWhenNoDenominator(r.PAR30_pct, r.Total_PAR)
          /\ ZeroWhenNoDenominator(r.PAR60_pct, r.Total_PAR)
          /\ ZeroWhenNoDenominator(r.PAR90_pct, r.Total_PAR)
          /\ ZeroWhenNoDenominator(r.PAR120_pct, r.Total_PAR)
          /\ ZeroWhenNoDenominator(r.Current_pct, r.Total_PAR)
    /\ \A r \in vintage_analysis :
          ZeroWhenNoDenominator(r.collection_rate, r.expected_payment)
    /\ \A r \in product_summary :
          ZeroWhenNoDenominator(r.collection_rate, r.expected_payment)
    /\ \A r \in FPD_rate_trend :
          /\ ZeroWhenNoDenominator(r.FPD_rate, r.contracts)
          /\ ZeroWhenNoDenominator(r.FPD_zero_rate, r.contracts)

\* C4: once the workbook is written, no failure of a publication step (copy,
\* git, email) leaves main() as an uncaught exception.
C4_PublicationFailureCaught == workbook.written => pc # "crashed"

\* C5: when loading an input fails, the failure is printed and the run has
\* ended with no later step performed: no table computed, no workbook written,
\* nothing copied, pushed or mailed.
C5_LoadFailureAborts ==
    "Error loading data" \in printed =>
        /\ pc = "aborted"
        /\ contracts_df = <<>> /\ payments_df = <<>> /\ trend_df = <<>>
        /\ trend_summary = {} /\ par_pivot = {} /\ vintage_analysis = {}
        /\ product_summary = {} /\ FPD_rate_trend = {} /\ cash_flow = {}
        /\ monthly_projection = <<>>
        /\ workbook = NoWorkbook
        /\ published = {}
        /\ printed = {"Error loading data"}

\* C5's case: a load has failed and the run has ended.
C5_Witness == pc = "aborted" /\ "Error loading data" \in printed

\* The schedule rows the cash flow section would read were trend_df not
\* restricted to FINANCED contracts by line 99: every other reassignment of
\* trend_df (lines 120-144, 179-196, 207-211) applied to the whole schedule.
AllTypesTrend ==
    WithProductColumns(
        FilterMonthsOnBook(
            WithVintageColumns(
                WithParColumns(Schedule(contracts_df, payments_df)),
                contracts_df)),
        contracts_df)

\* The value of column f in the Cash_Flow row of key k, 0 without such a row.
InflowOf(k, f) ==
    SumSet({r \in cash_flow : <<r.company, r.product_family,
                                 r.baseunit_productname, r.month>> = k}, f)

\* C6: the expected and actual inflows of Cash_Flow are summed over the
\* schedule entries of contracts of every contract type: also a non-FINANCED
\* contract's rows count in the inflows of their group.
C6_CashFlowAllContractTypes ==
    workbook.written =>
        \A i \in 1..Len(AllTypesTrend) :
            LET k == ProductKey(AllTypesTrend[i])
            IN  /\ InflowOf(k, "expected_payment")
                     = SumByProduct(AllTypesTrend, "expected_payment", k)
                /\ InflowOf(k, "total_paid")
                     = SumByProduct(AllTypesTrend, "total_paid", k)

-----------------------------------------------------------------------------
(* The schedule (SpecSchedule). *)

\* Inputs for the schedule: contracts of 10 USD a day registered 2024-01-01 or
\* 2025-07-20 or without a date, of 90 days or without a tenor, with repeated
\* ids; payments inside and outside the schedules.
ScheduleInputs ==
    LET rows == {Contract(id, "FINANCED", reg, tenor, 10000) :
                    id \in 1..2,
                    reg \in {Date(2024, 1, 1), Date(2025, 7, 20), NaT},
                    tenor \in {90, NaN}}
        pays == {Payment(1, Date(2024, 1, 15), 31000),
                 Payment(2, Date(2025, 8, 10), 5000)}
    IN  {Input(cs, ps, TRUE) :
            cs \in SeqsOf(rows, 1, MaxContracts),
            ps \in SeqsOf(pays, 0, MaxPayments)}

InitSchedule == InitWith(ScheduleInputs)

\* The run on the schedule inputs.
SpecSchedule == InitSchedule /\ [][Next]_vars

\* The number of rows of trend_df for contract id and month m.
RowCount(id, m) ==
    Cardinality({i \in 1..Len(trend_df) :
                    trend_df[i].contract_id = id /\ trend_df[i].month = m})

\* The contracts of contracts_df with a registration date and a tenor.
Dated ==
    {i \in 1..Len(contracts_df) :
        /\ contracts_df[i].registration_date # NaT
        /\ contracts_df[i].contract_tenor_days # NaN}

\* C2: when the schedule has been built (trend_df of line 95), every contract
\* with a registration date and a tenor has exactly one row for each month from
\* its registration month to the month of registration_date +
\* contract_tenor_days, and no row for any other month.
C2_ScheduleSpansExactly ==
    pc = "collection" =>
        \A i \in Dated : \A m \in 0..(CalendarMonths - 1) :
            LET c == contracts_df[i]
                first == to_period(c.registration_date)
                last == to_period(c.registration_date + c.contract_tenor_days)
            IN  RowCount(c.contract_id, m) = IF first <= m /\ m <= last THEN 1 ELSE 0

\* C2's case: the contracts table repeated a contract id, and the schedule of
\* the deduplicated contracts has been built, payments joined.
C2_Witness ==
    /\ pc = "collection"
    /\ Len(remote.contracts) > Len(contracts_df)
    /\ Dated # {}
    /\ \E i \in 1..Len(trend_df) : trend_df[i].total_paid > 0

\* The last month of the schedule of contract id.
LastMonthOf(id) ==
    LET M == {trend_df[i].month : i \in {j \in 1..Len(trend_df) :
                                            trend_df[j].contract_id = id}}
    IN  CHOOSE m \in M : \A x \in M : x <= m

\* The contracts of the example: 10 USD a day, registered 2024-01-01, 90 days.
Example ==
    {i \in Dated : /\ contracts_df[i].registration_date = Date(2024, 1, 1)
                   /\ contracts_df[i].contract_tenor_days = 90
                   /\ contracts_df[i].daily_payment_amount_usd = 10000}

\* The expected_payment of the row of contract id for month m.
ExpectedOf(id, m) ==
    trend_df[CHOOSE i \in 1..Len(trend_df) :
                trend_df[i].contract_id = id /\ trend_df[i].month = m].expected_payment

\* The month whose days include the date d.
MonthContaining(d) ==
    CHOOSE m \in 0..(CalendarMonths - 1) :
        to_timestamp(m) <= d /\ d < to_timestamp(m + 1)

\* C10 as stated: the schedule ends in the month containing registration_date
\* + contract_tenor_days, and the example contract's schedule ends in April
\* 2024 with 310.00 expected for January 2024.
C10_EndMonthExampleApril ==
    pc = "collection" =>
        /\ \A i \in Dated :
              LastMonthOf(contracts_df[i].contract_id)
                  = MonthContaining(contracts_df[i].registration_date
                                      + contracts_df[i].contract_tenor_days)
        /\ \A i \in Example :
              /\ LastMonthOf(contracts_df[i].contract_id) = Month(2024, 4)
              /\ ExpectedOf(contracts_df[i].contract_id, Month(2024, 1)) = 31000

\* C10 amended: the schedule ends in the month containing registration_date +
\* contract_tenor_days, and the example contract's schedule ends in March 2024
\* (2024 is a leap year: 2024-01-01 + 90 days is 2024-03-31) with 310.00
\* expected for January 2024.
C10_EndMonthExampleMarch ==
    pc = "collection" =>
        /\ \A i \in Dated :
              LastMonthOf(contracts_df[i].contract_id)
                  = MonthContaining(contracts_df[i].registration_date
                                      + contracts_df[i].contract_tenor_days)
        /\ \A i \in Example :
              /\ LastMonthOf(contracts_df[i].contract_id) = Month(2024, 3)
              /\ ExpectedOf(contracts_df[i].contract_id, Month(2024, 1)) = 31000

\* C10's case: the schedule of the example contract has been built.
C10_Witness == pc = "collection" /\ Example # {}

-----------------------------------------------------------------------------
(* The consecutive-miss counter and the PAR buckets (SpecPAR). *)

\* The months of the schedule of the contract whose payments vary.
ParMonths == 6

\* What a contract of 1 USD a day may pay in a month: nothing, a part, or
\* enough for any month.
PayChoices == {0, 1000, 3100}

\* The payments of contract id that pays pay[k] on the 9th of the k-th month
\* from month m0 (no row for a month without payment).
PaymentsOf(id, m0, pay) ==
    Concat([k \in 1..Len(pay) |->
        IF pay[k] = 0 THEN <<>>
        ELSE <<Payment(id, to_timestamp(m0 + k - 1) + 8, pay[k])>>])

\* Inputs for the PAR walk: contract 2, registered 2025-03-01 for ParMonths
\* months, pays any of PayChoices each month; contract 1, listed after it and
\* registered 2025-06-20, pays nothing or everything.
ParInputs ==
    LET c2 == Contract(2, "FINANCED", Date(2025, 3, 1), 30 * ParMonths - 20, 1000)
        c1 == Contract(1, "FINANCED", Date(2025, 6, 20), 60, 1000)
    IN  {Input(<<c2, c1>>,
               PaymentsOf(2, Month(2025, 3), pay) \o PaymentsOf(1, Month(2025, 6), other),
               TRUE) :
            pay \in [1..ParMonths -> PayChoices],
            other \in {<<0, 0, 0>>, <<3100, 3100, 3100>>}}

InitPAR == InitWith(ParInputs)

\* The run on the PAR inputs.
SpecPAR == InitPAR /\ [][Next]_vars

\* The rows of trend_df of contract id, in ascending month order.
RowsOf(id) ==
    LET I == {i \in 1..Len(trend_df) : trend_df[i].contract_id = id}
        before(i) == {j \in I : trend_df[j].month < trend_df[i].month}
    IN  [k \in 1..Cardinality(I) |->
            trend_df[CHOOSE i \in I : Cardinality(before(i)) = k - 1]]

\* The bucket of a counter, as section 3 of the specification tabulates it.
BucketTable(n) ==
    CASE n = 0 -> "Current"
      [] n = 1 -> "PAR30"
      [] n = 2 -> "PAR60"
      [] n = 3 -> "PAR90"
      [] OTHER -> "PAR120"

\* C1: once the PAR columns are computed, for every FINANCED contract, in
\* ascending month order, the counter of a month is 0 when total_paid >=
\* expected_payment and the previous month's counter (0 before the first
\* month) plus 1 otherwise, and the bucket of each month is the one the table
\* gives for the counter.
C1_ConsecutiveMissBuckets ==
    pc = "vintage" =>
        \A id \in financed_contracts(contracts_df) :
            LET rows == RowsOf(id)
            IN  /\ Len(rows) = Cardinality({i \in 1..Len(trend_df) :
                                               trend_df[i].contract_id = id})
                /\ \A k \in 1..Len(rows) :
                      /\ rows[k].consec_missed =
                            IF rows[k].total_paid >= rows[k].expected_payment THEN 0
                            ELSE (IF k = 1 THEN 0 ELSE rows[k - 1].consec_missed) + 1
                      /\ rows[k].PAR_bucket = BucketTable(rows[k].consec_missed)

\* C1's case: a contract is Current, then misses four months in a row and is
\* PAR30, PAR60, PAR90, PAR120, then meets the expectation and is Current.
C1_Witness ==
    /\ pc = "vintage"
    /\ \E id \in financed_contracts(contracts_df) :
          LET rows == RowsOf(id)
          IN  \E k \in 1..(Len(rows) - 5) :
                 [j \in 0..5 |-> rows[k + j].PAR_bucket] =
                    [j \in 0..5 |-> <<"Current", "PAR30", "PAR60", "PAR90",
                                      "PAR120", "Current">>[j + 1]]

-----------------------------------------------------------------------------
(* The PAR percentages (SpecPct). *)

\* What a contract of daily rate d pays in a month it pays: enough for any
\* month, and 1.00 when nothing is due.
FullPayment(d) == IF d = 0 THEN 100 ELSE (d * 31) \div 10

\* The number of contracts of the PAR percentage inputs.
PctContracts == 5

\* Inputs for the PAR percentages: PctContracts FINANCED contracts of one company,
\* registered 2025-05-01 for 100 days (May to August), the first ones of 0.10
\* and the others of 0.30 USD a day (or all of 0); contract i pays in full
\* every month but the last k[i], so that August can hold a contract in each
\* of the five buckets.  The contracts are listed by non-decreasing k.
PctInputs ==
    LET N  == PctContracts
        ks == {k \in [1..N -> 0..4] : \A i \in 1..(N - 1) : k[i] <= k[i + 1]}
        ds == {[i \in 1..N |-> IF i < j THEN 100 ELSE 300] : j \in 1..(N + 1)}
                 \cup {[i \in 1..N |-> 0]}
    IN  {Input([i \in 1..N |->
                  Contract(i, "FINANCED", Date(2025, 5, 1), 100, d[i])],
               Concat([i \in 1..N |->
                  PaymentsOf(i, Month(2025, 5),
                             [m \in 1..4 |-> IF m <= 4 - k[i]
                                             THEN FullPayment(d[i]) ELSE 0])]),
               TRUE) :
            k \in ks, d \in ds}

InitPct == InitWith(PctInputs)

\* The run on the PAR percentage inputs.
SpecPct == InitPct /\ [][Next]_vars

\* The sum of the five percentages of a PAR_Trend row, in hundredths.
PctSum(r) ==
    r.PAR30_pct.v + r.PAR60_pct.v + r.PAR90_pct.v + r.PAR120_pct.v + r.Current_pct.v

\* The five percentages of a PAR_Trend row.
Pcts(r) == {r.PAR30_pct, r.PAR60_pct, r.PAR90_pct, r.PAR120_pct, r.Current_pct}

\* C7 as stated: in every PAR_Trend row with Total_PAR > 0 the five rounded
\* percentages sum to 100 within 0.01, and with Total_PAR = 0 all five are 0.
C7_PercentagesSumWithinOneHundredth ==
    \A r \in par_pivot :
        /\ \A p \in Pcts(r) : p.kind = "num"
        /\ r.Total_PAR > 0 => PctSum(r) \in (10000 - 1)..(10000 + 1)
        /\ r.Total_PAR = 0 => Pcts(r) = {Num(0)}

\* C7 amended: in every PAR_Trend row with Total_PAR > 0 the five rounded
\* percentages sum to 100 within 0.02, and with Total_PAR = 0 all five are 0.
C7_PercentagesSumWithinTwoHundredths ==
    \A r \in par_pivot :
        /\ \A p \in Pcts(r) : p.kind = "num"
        /\ r.Total_PAR > 0 => PctSum(r) \in (10000 - 2)..(10000 + 2)
        /\ r.Total_PAR = 0 => Pcts(r) = {Num(0)}

\* C7's case: a PAR_Trend row with an amount in each of the five buckets.
C7_Witness ==
    \E r \in par_pivot :
        /\ r.PAR30 > 0 /\ r.PAR60 > 0 /\ r.PAR90 > 0 /\ r.PAR120 > 0 /\ r.Current > 0
        /\ r.Total_PAR > 0

-----------------------------------------------------------------------------
(* First payment default (SpecFPD). *)

\* Inputs for the FPD table: contract i has id i; FINANCED contracts
\* registered 2025-07-03 (day <= 5) or 2025-07-20 (day > 5) or without a date,
\* of 20 or 90 days, and a CASH contract; contract 1 pays up to two amounts in
\* August or September 2025.
FpdInputs ==
    LET rows(id) == {Contract(id, "FINANCED", reg, tenor, 1000) :
                        reg \in {Date(2025, 7, 3), Date(2025, 7, 20), NaT},
                        tenor \in {20, 90}}
                    \cup {Contract(id, "CASH", Date(2025, 7, 3), 90, 1000)}
        pays == {Payment(1, Date(2025, 8, 10), 1600),
                 Payment(1, Date(2025, 9, 10), 1600),
                 Payment(1, Date(2025, 8, 20), 3100)}
    IN  {Input(cs, ps, TRUE) :
            cs \in {c \in SeqsOf(UNION {rows(id) : id \in 1..MaxContracts},
                                 1, MaxContracts) :
                       \A i \in 1..Len(c) : c[i].contract_id = i},
            ps \in SeqsOf(pays, 0, MaxPayments + 1)}

InitFPD == InitWith(FpdInputs)

\* The run on the FPD inputs.
SpecFPD == InitFPD /\ [][Next]_vars

\* The FPD month of section 4.4: the next calendar month when the
\* registration day is at most 5, the month after next otherwise.
FpdMonthOf(c) ==
    to_period(c.registration_date) + (IF DayOf(c.registration_date) <= 5 THEN 1 ELSE 2)

\* The FINANCED contracts with a registration date.
FinancedDated ==
    {i \in 1..Len(contracts_df) :
        /\ contracts_df[i].contract_type = "FINANCED"
        /\ contracts_df[i].registration_date # NaT}

\* Those whose schedule has a row for their FPD month.
FinancedDue ==
    {i \in FinancedDated :
        /\ contracts_df[i].contract_tenor_days # NaN
        /\ FpdMonthOf(contracts_df[i])
              <= MonthContaining(contracts_df[i].registration_date
                                   + contracts_df[i].contract_tenor_days)}

\* The group of a contract in the FPD table.
FpdGroup(c) == <<c.company, to_period(c.registration_date), FpdMonthOf(c)>>

\* The payments of a contract made in month m.
PaidIn(c, m) ==
    SumSeq([j \in 1..Len(payments_df) |->
              IF /\ payments_df[j].contract_id = c.contract_id
                 /\ payments_df[j].pay_month # NaT
                 /\ MonthContaining(payments_df[j].pay_month) = m
              THEN payments_df[j].total_paid ELSE 0])

\* The expected payment of a contract for month m.
DueIn(c, m) == RoundHalfEven(c.daily_payment_amount_usd * days_in_month(m), 10)

\* The FPD table counts exactly the contracts of the set C of rows of
\* contracts_df: each once, in its group, in FPD_count iff it paid less than
\* expected in its FPD month, in FPD_zero_count iff it paid 0 then.
FpdTableCounts(C) ==
    LET in(g) == {i \in C : FpdGroup(contracts_df[i]) = g}
    IN  /\ {<<r.company, r.reg_month, r.fpd_month>> : r \in FPD_rate_trend}
              = {FpdGroup(contracts_df[i]) : i \in C}
        /\ \A r \in FPD_rate_trend :
              LET g == <<r.company, r.reg_month, r.fpd_month>>
              IN  /\ r.contracts = Cardinality(in(g))
                  /\ r.FPD_count = Cardinality({i \in in(g) :
                        PaidIn(contracts_df[i], g[3]) < DueIn(contracts_df[i], g[3])})
                  /\ r.FPD_zero_count = Cardinality({i \in in(g) :
                        PaidIn(contracts_df[i], g[3]) = 0})
        /\ \A r1, r2 \in FPD_rate_trend :
              <<r1.company, r1.reg_month, r1.fpd_month>>
                 = <<r2.company, r2.reg_month, r2.fpd_month>> => r1 = r2

\* C8 as stated: every FINANCED contract with a registration date is counted
\* exactly once in the FPD table, in its (company, registration month, FPD
\* month) group, in FPD_count iff its FPD-month payments are less than the
\* month's expected payment and in FPD_zero_count iff they are 0.
C8_EveryFinancedContractCounted ==
    pc = "cashflow" => FpdTableCounts(FinancedDated)

\* The extent of C8's divergence: the table counts exactly the FINANCED
\* contracts with a registration date and a tenor whose schedule reaches their
\* FPD month (registration_date + contract_tenor_days falls in or after it);
\* the inner merge of lines 245-250 leaves the others out.
FpdTableCountsDueContracts ==
    pc = "cashflow" => FpdTableCounts(FinancedDue)

-----------------------------------------------------------------------------
(* The valuation (SpecVal). *)

\* Inputs for the valuation: contracts registered before, inside and after the
\* first month of the projection window, of 30, 90 or 400 days; no payments.
ValInputs ==
    LET rows(id) == {Contract(id, "FINANCED", reg, tenor, 1000) :
                        reg \in {Date(2025, 7, 3), Date(2025, 8, 15), Date(2025, 10, 1)},
                        tenor \in {30, 90, 400}}
    IN  {Input(cs, <<>>, TRUE) :
            cs \in {c \in SeqsOf(UNION {rows(id) : id \in 1..MaxContracts},
                                 1, MaxContracts) :
                       \A i \in 1..Len(c) : c[i].contract_id = i}}

InitVal == InitWith(ValInputs)

\* The run on the valuation inputs.
SpecVal == InitVal /\ [][Next]_vars

\* C9: the cash flow of the i-th month of the 12-month window that starts
\* 2025-08-01 is discounted with exponent -i, whatever the contracts.
C9_ExponentIsWindowMonth ==
    pc = "save" =>
        \A i \in 1..Len(monthly_projection) :
            monthly_projection[i].discount_exponent
                = monthly_projection[i].month - Month(2025, 8) + 1

-----------------------------------------------------------------------------
(* Product performance against collection rate (Spec). *)

\* The rows of Product_Collection_Rate of one (company, month).
ProductRowsOf(co, m) ==
    {p \in product_summary : p.company = co /\ p.month = m}

\* C11: with the product columns present and non-null, for every (company,
\* month) of the Collection Rate table the expected_payment and the total_paid
\* summed over the product rows of that (company, month) equal the Collection
\* Rate table's, the registration month of a contract registered after the 1st
\* included.
C11_ProductSumsEqualCollectionRate ==
    (pc = "fpd" /\ remote.product_columns) =>
        \A t \in trend_summary :
            /\ SumSet(ProductRowsOf(t.company, t.month), "expected_payment")
                  = t.expected_payment
            /\ SumSet(ProductRowsOf(t.company, t.month), "total_paid")
                  = t.total_paid

\* The extent of C11's divergence: the two tables agree in every (company,
\* month) that is the registration month of no FINANCED contract registered
\* after the 1st; line 196 has dropped those rows from trend_df before the
\* product table is grouped.
ProductSumsEqualOutsideRegistrationMonths ==
    (pc = "fpd" /\ remote.product_columns) =>
        \A t \in trend_summary :
            (\A i \in 1..Len(contracts_df) :
                LET c == contracts_df[i]
                IN  ~ /\ c.contract_type = "FINANCED"
                      /\ c.company = t.company
                      /\ c.registration_date # NaT
                      /\ to_period(c.registration_date) = t.month
                      /\ DayOf(c.registration_date) > 1)
            => /\ SumSet(ProductRowsOf(t.company, t.month), "expected_payment")
                     = t.expected_payment
               /\ SumSet(ProductRowsOf(t.company, t.month), "total_paid")
                     = t.total_paid

=============================================================================
